---- MODULE Spec2Model ----
(***************************************************************************)
(* Model of sse-stream-parser (src/unnamed/part_000):                      *)
(*   - the default pipeline splitStream() -> splitEventPart(), with text   *)
(*     as sequences of one-character strings;                              *)
(*   - the consumption adapter SseStreamParser layers over the output      *)
(*     ReadableStream: for-await iteration, subscribe and collectAll.      *)
(***************************************************************************)
EXTENDS Integers, Sequences, FiniteSets, TLC

\* ------------------------------------------------------------------ bounds
\* Longest input text of the parsing specification.
MaxLen == 6
\* Number of values the pipeline puts on the output stream.
MaxValues == 3
\* Number of consumers (for-await loops, subscribe and collectAll calls)
\* started on one output stream.
NumConsumers == 2

VARIABLES
  \* --- the default pipeline (splitStream -> splitEventPart)
  text,        \* the whole decoded text the source delivers
  fed,         \* number of characters of text delivered as chunks so far
  buffer,      \* splitStream's closure variable `buffer`
  blocks,      \* the event blocks splitStream has enqueued
  emitted,     \* the field maps splitEventPart has enqueued
  flushed,     \* the upstream closed and flush() has run
  cutInSeparator, \* a chunk ended between the two line breaks of a separator
  \* --- the output ReadableStream `stream`
  custom,      \* options.transformStream was given
  produced,    \* the values the pipeline has enqueued, in order
  state,       \* "readable", "closed" or "errored"
  queue,       \* values enqueued and not yet read
  closeRequested, \* close() was called with values still queued
  locked,      \* the consumer whose reader holds the lock, 0 when unlocked
  \* --- the consumers
  con,         \* per consumer: its control state and what it has observed
  delivered,   \* every value handed to a consumer, in order of delivery
  overlap      \* a consumer was started while another was still consuming

parseVars == <<text, fed, buffer, blocks, emitted, flushed, cutInSeparator>>
streamVars == <<custom, produced, state, queue, closeRequested, locked>>
conVars == <<con, delivered, overlap>>
vars == <<text, fed, buffer, blocks, emitted, flushed, cutInSeparator,
          custom, produced, state, queue, closeRequested, locked,
          con, delivered, overlap>>

\* The characters input texts are drawn from: the line break, the key/value
\* separator, a blank and a letter.
Alphabet == {"\n", ":", " ", "a"}

\* ------------------------------------------------- strings (JS String API)
DEFAULT_STREAM_SEPARATOR == <<"\n", "\n">>
DEFAULT_PART_SEPARATOR == <<"\n">>
DEFAULT_KV_SEPARATOR == <<":">>

\* The characters String.prototype.trim strips.
WhiteSpace == {" ", "\n", "\t", "\r"}

RECURSIVE trimStart(_)
trimStart(s) ==
  IF s # <<>> /\ Head(s) \in WhiteSpace THEN trimStart(Tail(s)) ELSE s

RECURSIVE trimEnd(_)
trimEnd(s) ==
  IF s # <<>> /\ s[Len(s)] \in WhiteSpace
  THEN trimEnd(SubSeq(s, 1, Len(s) - 1))
  ELSE s

trim(s) == trimEnd(trimStart(s))

\* Faulty variant: the test without the trim: str !== ''
isValidStringNoTrim(str) == str # <<>>

\* isValidString: (str == null ? '' : str).trim() !== ''
isValidString(str) == trim(str) # <<>>

\* sep occurs in s at the 1-based position i
occursAt(s, sep, i) ==
  /\ i + Len(sep) - 1 <= Len(s)
  /\ SubSeq(s, i, i + Len(sep) - 1) = sep

\* String.prototype.indexOf: 0-based index of the first occurrence, or -1
indexOf(s, sep) ==
  IF \E i \in 1..Len(s) : occursAt(s, sep, i)
  THEN (CHOOSE i \in 1..Len(s) :
          /\ occursAt(s, sep, i)
          /\ \A j \in 1..(i - 1) : ~occursAt(s, sep, j)) - 1
  ELSE -1

includes(s, sep) == indexOf(s, sep) # -1

\* String.prototype.substring(from) and substring(from, to), 0-based
substringFrom(s, from) == SubSeq(s, from + 1, Len(s))
substring(s, from, to) == SubSeq(s, from + 1, to)

\* String.prototype.split with a non-empty string separator: the pieces
\* between the leftmost non-overlapping occurrences; always >= 1 piece.
RECURSIVE split(_, _)
split(s, sep) ==
  LET i == indexOf(s, sep) IN
  IF i = -1
  THEN <<s>>
  ELSE <<substring(s, 0, i)>> \o split(substringFrom(s, i + Len(sep)), sep)

\* ------------------------------------------------ objects (field maps)
\* A field map is the sequence of its <<key, value>> properties in the order
\* Object.keys gives: canonical array-index keys first, ascending, then the
\* other keys in insertion order.
Digits == {"0", "1", "2", "3", "4", "5", "6", "7", "8", "9"}

DigitVal(c) ==
  CASE c = "0" -> 0 [] c = "1" -> 1 [] c = "2" -> 2 [] c = "3" -> 3
    [] c = "4" -> 4 [] c = "5" -> 5 [] c = "6" -> 6 [] c = "7" -> 7
    [] c = "8" -> 8 [] c = "9" -> 9

RECURSIVE NumVal(_)
NumVal(k) ==
  IF k = <<>> THEN 0
  ELSE 10 * NumVal(SubSeq(k, 1, Len(k) - 1)) + DigitVal(k[Len(k)])

\* canonical numeric string below 2^32 - 1
IsArrayIndex(k) ==
  /\ k # <<>>
  /\ Len(k) <= 9
  /\ \A i \in 1..Len(k) : k[i] \in Digits
  /\ (Len(k) > 1 => k[1] # "0")

HasKey(obj, key) == \E i \in 1..Len(obj) : obj[i][1] = key

\* The key Object.prototype defines as an accessor property.
ProtoKey == <<"_", "_", "p", "r", "o", "t", "o", "_", "_">>

\* obj[key] = value, for obj created by {} and value a string. Assigning to
\* "__proto__" runs the inherited setter, which ignores a value that is
\* neither an object nor null: no own property is created.
ObjSet(obj, key, value) ==
  IF key = ProtoKey
  THEN obj
  ELSE IF HasKey(obj, key)
  THEN [i \in 1..Len(obj) |->
          IF obj[i][1] = key THEN <<key, value>> ELSE obj[i]]
  ELSE IF IsArrayIndex(key)
  THEN LET before == SelectSeq(obj, LAMBDA p :
                       IsArrayIndex(p[1]) /\ NumVal(p[1]) < NumVal(key))
           after == SelectSeq(obj, LAMBDA p :
                       ~(IsArrayIndex(p[1]) /\ NumVal(p[1]) < NumVal(key)))
       IN before \o <<<<key, value>>>> \o after
  ELSE Append(obj, <<key, value>>)

\* ----------------------------------------------------------- splitStream
\* Faulty variant: transform that splits the incoming chunk alone
splitStreamTransformChunkOnly(buf, streamChunk) ==
  LET parts == split(streamChunk, DEFAULT_STREAM_SEPARATOR)
  IN [buffer |-> parts[Len(parts)],
      enqueued |-> SelectSeq(SubSeq(parts, 1, Len(parts) - 1), isValidString)]

\* transform(streamChunk): the new buffer and the blocks enqueued
splitStreamTransform(buf, streamChunk) ==
  LET joined == buf \o streamChunk
      parts == split(joined, DEFAULT_STREAM_SEPARATOR)
  IN [buffer |-> parts[Len(parts)],
      enqueued |-> SelectSeq(SubSeq(parts, 1, Len(parts) - 1), isValidString)]

\* Faulty variant: flush that enqueues nothing
splitStreamFlushNothing(buf) == <<>>

\* Faulty variant: flush that enqueues the buffer without testing it
splitStreamFlushAlways(buf) == <<buf>>

\* flush(): the blocks enqueued; the buffer variable is left as it is
splitStreamFlush(buf) ==
  IF isValidString(buf) THEN <<buf>> ELSE <<>>

\* -------------------------------------------------------- splitEventPart
\* the body of the loop over the lines of a block
parseLine(sseObject, line) ==
  IF ~includes(line, DEFAULT_KV_SEPARATOR)
  THEN sseObject
  ELSE LET colonIndex == indexOf(line, DEFAULT_KV_SEPARATOR)
           key == substring(line, 0, colonIndex)
           value == trim(substringFrom(line, colonIndex + 1))
       IN IF isValidString(key) THEN ObjSet(sseObject, key, value)
          ELSE sseObject

RECURSIVE parseLines(_, _)
parseLines(sseObject, lines) ==
  IF lines = <<>> THEN sseObject
  ELSE parseLines(parseLine(sseObject, Head(lines)), Tail(lines))

\* transform(partChunk): the field maps enqueued (none or one)
splitEventPartTransform(partChunk) ==
  LET lines == split(partChunk, DEFAULT_PART_SEPARATOR)
      sseObject == parseLines(<<>>, lines)
  IN IF Len(sseObject) = 0 THEN <<>> ELSE <<sseObject>>

\* the blocks of a sequence piped through splitEventPart, in order
RECURSIVE pipeEventParts(_)
pipeEventParts(parts) ==
  IF parts = <<>> THEN <<>>
  ELSE splitEventPartTransform(Head(parts)) \o pipeEventParts(Tail(parts))

\* ------------------------------------------- the pipeline as a machine
Texts == UNION {[1..n -> Alphabet] : n \in 0..MaxLen}

\* The output stream before anything was produced or consumed.
NoResult == [tag |-> "none", value |-> 0]

IdleConsumer ==
  [kind |-> "none",          \* "iter", "sub" or "collect" once started
   pc |-> "idle",            \* "reading", "yielded" or "ended" once started
   result |-> NoResult,      \* the outstanding reader.read()
   subscribing |-> FALSE,    \* subscribe's `subscribing` (null is FALSE)
   values |-> <<>>,          \* values passed to the value callback / yielded
   completions |-> 0,        \* invocations of the completion callback
   lateValues |-> 0,         \* value callbacks after a completion callback
   promise |-> [state |-> "pending", value |-> <<>>],  \* collectAll's promise
   reads |-> 0,              \* reader.read() calls issued
   taken |-> <<>>,           \* values its reads were fulfilled with
   failed |-> FALSE,         \* one of its reads was rejected
   outcome |-> "none",       \* how the generator / pump ended
   rejected |-> "none"]      \* what the iteration / pump promise rejected with

Consumers == 1..NumConsumers

StreamInit ==
  /\ produced = <<>>
  /\ state = "readable"
  /\ queue = <<>>
  /\ closeRequested = FALSE
  /\ locked = 0
  /\ con = [c \in Consumers |-> IdleConsumer]
  /\ delivered = <<>>
  /\ overlap = FALSE

ParseIdle ==
  /\ text = <<>>
  /\ fed = 0
  /\ buffer = <<>>
  /\ blocks = <<>>
  /\ emitted = <<>>
  /\ flushed = FALSE
  /\ cutInSeparator = FALSE

\* A text chunk arrives: splitStream.transform, then splitEventPart.transform
\* for every block it enqueued.
Feed(k) ==
  /\ ~flushed
  /\ fed + k <= Len(text)
  /\ LET r == splitStreamTransform(buffer, SubSeq(text, fed + 1, fed + k)) IN
       /\ buffer' = r.buffer
       /\ blocks' = blocks \o r.enqueued
       /\ emitted' = emitted \o pipeEventParts(r.enqueued)
  /\ fed' = fed + k
  /\ cutInSeparator' =
       (cutInSeparator \/ (/\ fed + k < Len(text)
                           /\ text[fed + k] = "\n"
                           /\ text[fed + k + 1] = "\n"))
  /\ UNCHANGED <<text, flushed>>
  /\ UNCHANGED streamVars
  /\ UNCHANGED conVars

\* The upstream closes: splitStream.flush, then splitEventPart.transform.
Flush ==
  /\ ~flushed
  /\ fed = Len(text)
  /\ LET r == splitStreamFlush(buffer) IN
       /\ blocks' = blocks \o r
       /\ emitted' = emitted \o pipeEventParts(r)
  /\ flushed' = TRUE
  /\ UNCHANGED <<text, fed, buffer, cutInSeparator>>
  /\ UNCHANGED streamVars
  /\ UNCHANGED conVars

InitParse ==
  /\ text \in Texts
  /\ fed = 0
  /\ buffer = <<>>
  /\ blocks = <<>>
  /\ emitted = <<>>
  /\ flushed = FALSE
  /\ cutInSeparator = FALSE
  /\ custom = FALSE
  /\ StreamInit

NextParse ==
  \/ \E k \in 1..MaxLen : Feed(k)
  \/ Flush

SpecParse == InitParse /\ [][NextParse]_vars

\* ---- the pipeline fed with field names of every kind, in one chunk
\* The alphabet with a digit added: keys may be canonical array indices.
BlockAlphabet == Alphabet \cup {"1"}

ProtoLine == ProtoKey \o <<":", "a">>

\* texts with a field named "__proto__": alone, after another field of the
\* same block, and in a block followed by a second block
ProtoTexts ==
  {ProtoLine,
   <<"a", ":", "\n">> \o ProtoLine,
   ProtoLine \o DEFAULT_STREAM_SEPARATOR \o <<"a", ":">>}

BlockTexts == UNION {[1..n -> BlockAlphabet] : n \in 0..MaxLen} \cup ProtoTexts

InitBlock ==
  /\ text \in BlockTexts
  /\ fed = 0
  /\ buffer = <<>>
  /\ blocks = <<>>
  /\ emitted = <<>>
  /\ flushed = FALSE
  /\ cutInSeparator = FALSE
  /\ custom = FALSE
  /\ StreamInit

\* the source delivers the text as a single chunk and closes
NextBlock ==
  \/ \E k \in {Len(text)} : Feed(k)
  \/ Flush

SpecBlock == InitBlock /\ [][NextBlock]_vars

\* ------------------------------------------------ the output stream
\* JavaScript truthiness of an output value. Field maps, the values of the
\* default pipeline, are the positive numbers (their position in the output);
\* a negative number is a falsy value of a custom stage.
Truthy(value) == value > 0

ValueResult(v) == [tag |-> "value", value |-> v]
Pending == [tag |-> "pending", value |-> 0]
DoneResult == [tag |-> "done", value |-> 0]
ErrorResult == [tag |-> "error", value |-> 0]

\* reader.read() on the stream <<st, q, cr>>: what the read settles with (or
\* "pending") and the stream afterwards. A queued value is handed over at
\* once; the stream closes when a requested close finds the queue drained.
Read(st, q, cr) ==
  IF q # <<>>
  THEN [result |-> ValueResult(Head(q)),
        queue |-> Tail(q),
        state |-> IF cr /\ Tail(q) = <<>> THEN "closed" ELSE st]
  ELSE [result |-> CASE st = "closed" -> DoneResult
                     [] st = "errored" -> ErrorResult
                     [] OTHER -> Pending,
        queue |-> q,
        state |-> st]

\* the consumer record after it has called reader.read() with outcome r
IssueRead(rec, r) ==
  [rec EXCEPT !.pc = "reading",
              !.result = r.result,
              !.reads = @ + 1,
              !.taken = IF r.result.tag = "value"
                        THEN Append(@, r.result.value) ELSE @,
              !.failed = (@ \/ r.result.tag = "error")]

\* a read request is waiting in the stream
ReadWaiting == locked # 0 /\ con[locked].result.tag = "pending"

\* The pipeline enqueues its next output value.
Enqueue(falsy) ==
  /\ state = "readable"
  /\ ~closeRequested
  /\ Len(produced) < MaxValues
  /\ falsy => custom
  /\ LET v == IF falsy THEN -(Len(produced) + 1) ELSE Len(produced) + 1 IN
     /\ produced' = Append(produced, v)
     /\ IF ReadWaiting
        THEN /\ con' = [con EXCEPT ![locked].result = ValueResult(v),
                                   ![locked].taken = Append(@, v)]
             /\ UNCHANGED queue
        ELSE /\ queue' = Append(queue, v)
             /\ UNCHANGED con
  /\ UNCHANGED <<custom, state, closeRequested, locked, delivered, overlap>>
  /\ UNCHANGED parseVars

\* The upstream ends and the pipeline closes the output stream.
Close ==
  /\ state = "readable"
  /\ ~closeRequested
  /\ IF queue = <<>>
     THEN /\ state' = "closed"
          /\ closeRequested' = closeRequested
          /\ con' = IF ReadWaiting
                    THEN [con EXCEPT ![locked].result = DoneResult]
                    ELSE con
     ELSE /\ closeRequested' = TRUE
          /\ UNCHANGED <<state, con>>
  /\ UNCHANGED <<custom, produced, queue, locked, delivered, overlap>>
  /\ UNCHANGED parseVars

\* The source or a stage fails: the output stream errors, its queue is
\* dropped and a waiting read is rejected.
Fail ==
  /\ state = "readable"
  /\ ~closeRequested
  /\ state' = "errored"
  /\ queue' = <<>>
  /\ con' = IF ReadWaiting
            THEN [con EXCEPT ![locked].result = ErrorResult,
                             ![locked].failed = TRUE]
            ELSE con
  /\ UNCHANGED <<custom, produced, closeRequested, locked, delivered, overlap>>
  /\ UNCHANGED parseVars

\* ------------------------------------------------------ the consumers
\* Consumers are numbered in the order they are started.
Startable(c) ==
  /\ con[c].pc = "idle"
  /\ IF c = 1 THEN TRUE ELSE con[c - 1].pc # "idle"

\* a consumer that has neither finished, nor left its loop, nor been cancelled
StillConsuming(rec) ==
  /\ rec.pc \in {"reading", "yielded"}
  /\ rec.kind = "sub" => rec.subscribing

Started(kind) == [IdleConsumer EXCEPT !.kind = kind]

\* Faulty variant: an exit path that leaves the reader locked
releaseLockForgotten(holder, c) == holder

\* reader.releaseLock() by consumer c
releaseLock(holder, c) == IF holder = c THEN 0 ELSE holder

\* ---- stream[Symbol.asyncIterator]
\* Faulty variant: the test inverted: `if (value) continue`
IterSkipsInverted(value) == Truthy(value)

\* `if (!value) continue`
IterSkips(value) == ~Truthy(value)

\* Faulty variant: a generator that ends normally when its read is rejected
IterSettleSwallowsError(rec) ==
  CASE rec.result.tag \in {"done", "error"} ->
         [rec EXCEPT !.pc = "ended", !.result = NoResult, !.outcome = "done"]
    [] rec.result.tag = "value" ->
         IF ~Truthy(rec.result.value)
         THEN [rec EXCEPT !.pc = "loop", !.result = NoResult]
         ELSE [rec EXCEPT !.pc = "yielded", !.result = NoResult,
                          !.values = Append(@, rec.result.value)]

\* The generator resumes with its read settled and runs to its next
\* suspension: pc "yielded" at the yield, "loop" when it goes on to the next
\* read, "ended" when it returned or threw (the finally block has then run).
IterSettle(rec) ==
  CASE rec.result.tag = "done" ->
         [rec EXCEPT !.pc = "ended", !.result = NoResult, !.outcome = "done"]
    [] rec.result.tag = "error" ->
         [rec EXCEPT !.pc = "ended", !.result = NoResult,
                     !.outcome = "readError", !.rejected = "readError"]
    [] rec.result.tag = "value" ->
         IF IterSkips(rec.result.value)
         THEN [rec EXCEPT !.pc = "loop", !.result = NoResult]
         ELSE [rec EXCEPT !.pc = "yielded", !.result = NoResult,
                          !.values = Append(@, rec.result.value)]

\* The consumer record new of consumer c is installed; when it is at "loop"
\* the next reader.read() is issued, when it has ended the lock is released.
Install(c, new, wasDelivered) ==
  /\ IF new.pc = "loop"
     THEN LET r == Read(state, queue, closeRequested) IN
            /\ con' = [con EXCEPT ![c] = IssueRead(new, r)]
            /\ queue' = r.queue
            /\ state' = r.state
            /\ UNCHANGED locked
     ELSE /\ con' = [con EXCEPT ![c] = new]
          /\ locked' = IF new.pc = "ended" THEN releaseLock(locked, c)
                       ELSE locked
          /\ UNCHANGED <<queue, state>>
  /\ delivered' = IF wasDelivered
                  THEN Append(delivered, con[c].result.value)
                  ELSE delivered
  /\ UNCHANGED <<custom, produced, closeRequested, overlap>>
  /\ UNCHANGED parseVars

\* Faulty variant: a getReader that hands out a second reader
getReaderNeverThrows(holder) == FALSE

\* this.getReader() throws a TypeError when the stream is locked
getReaderThrows(holder) == holder # 0

\* A consumer is started: getReader() throws when the stream is locked,
\* else it takes the lock and the first read is issued.
Acquire(c, kind, lockedOut) ==
  /\ Startable(c)
  /\ overlap' = (overlap \/ \E d \in Consumers : StillConsuming(con[d]))
  /\ IF getReaderThrows(locked)
     THEN /\ con' = [con EXCEPT ![c] = lockedOut]
          /\ UNCHANGED <<locked, queue, state>>
     ELSE LET r == Read(state, queue, closeRequested) IN
            /\ con' = [con EXCEPT ![c] =
                         IssueRead([Started(kind) EXCEPT
                                      !.subscribing = (kind # "iter")], r)]
            /\ locked' = c
            /\ queue' = r.queue
            /\ state' = r.state
  /\ UNCHANGED <<custom, produced, closeRequested, delivered>>
  /\ UNCHANGED parseVars

\* for await (const value of stream): the generator is created and advanced
IterStart(c) ==
  Acquire(c, "iter",
          [Started("iter") EXCEPT !.pc = "ended", !.outcome = "locked",
                                  !.rejected = "lockError"])

\* the awaited read settles
IterResume(c) ==
  /\ con[c].kind = "iter"
  /\ con[c].pc = "reading"
  /\ con[c].result.tag \in {"value", "done", "error"}
  /\ LET new == IterSettle(con[c]) IN Install(c, new, new.pc = "yielded")

\* the loop body finishes and the loop asks for the next value
IterNext(c) ==
  /\ con[c].pc = "yielded"
  /\ Install(c, [con[c] EXCEPT !.pc = "loop"], FALSE)

\* the consumer leaves the loop early (break, return or an exception in the
\* body): return() resumes the generator at the yield and runs the finally
IterReturn(c) ==
  /\ con[c].pc = "yielded"
  /\ Install(c, [con[c] EXCEPT !.pc = "ended", !.outcome = "returned"], FALSE)

\* ---- stream.subscribe and stream.collectAll
\* onComplete?.(): collectAll's completion callback resolves its promise
Complete(rec) ==
  [rec EXCEPT !.completions = @ + 1,
              !.promise = IF rec.kind = "collect" /\ @.state = "pending"
                          THEN [state |-> "fulfilled", value |-> rec.values]
                          ELSE @]

\* Faulty variant: values.unshift(value)
pushFront(values, value) == <<value>> \o values

\* values.push(value), collectAll's value callback
push(values, value) == Append(values, value)

\* callback(value); the callback may call the cancel function itself
Callback(rec, value, cancels) ==
  [rec EXCEPT !.values = push(@, value),
              !.lateValues = @ + (IF rec.completions > 0 THEN 1 ELSE 0),
              !.subscribing = IF cancels THEN FALSE ELSE @]

\* Faulty variant: a catch block that logs and does not call onComplete
CatchHandlerSilent(rec, outcome, ocThrows) ==
  [rec EXCEPT !.pc = "ended", !.result = NoResult, !.outcome = outcome]

\* catch (error) { console.error(...); onComplete?.(); }
\* An exception of this onComplete rejects the pump's promise.
CatchHandler(rec, outcome, ocThrows) ==
  [Complete(rec) EXCEPT !.pc = "ended", !.result = NoResult,
                        !.outcome = outcome,
                        !.rejected = IF ocThrows THEN "callbackError"
                                     ELSE "none"]

\* Faulty variant: `if (value)`: the cancellation flag is not looked at
ShouldDeliverIgnoringCancel(value, subscribing) == Truthy(value)

\* `if (value && subscribing)`
ShouldDeliver(value, subscribing) == Truthy(value) /\ subscribing

\* Faulty variant: `while (true)`: the flag is not tested before the next read
LoopAlways(rec) == [rec EXCEPT !.pc = "loop", !.result = NoResult]

\* `while (subscribing)`: on to the next read, or out through the finally
LoopOrExit(rec) ==
  IF rec.subscribing
  THEN [rec EXCEPT !.pc = "loop", !.result = NoResult]
  ELSE [rec EXCEPT !.pc = "ended", !.result = NoResult,
                   !.outcome = "cancelled"]

\* The pump resumes with its read settled and runs to its next read ("loop")
\* or to its end. cbCancels, cbThrows: what the value callback does;
\* ocThrows, ocThrowsAgain: whether the completion callback throws at its
\* first and at its second invocation.
PumpSettle(rec, cbCancels, cbThrows, ocThrows, ocThrowsAgain) ==
  CASE rec.result.tag = "done" ->
         IF ocThrows
         THEN CatchHandler(Complete(rec), "done", ocThrowsAgain)
         ELSE [Complete(rec) EXCEPT !.pc = "ended", !.result = NoResult,
                                    !.outcome = "done"]
    [] rec.result.tag = "error" ->
         CatchHandler(rec, "readError", ocThrows)
    [] rec.result.tag = "value" ->
         IF ShouldDeliver(rec.result.value, rec.subscribing)
         THEN LET called == Callback(rec, rec.result.value, cbCancels) IN
                IF cbThrows
                THEN CatchHandler(called, "callbackThrew", ocThrows)
                ELSE LoopOrExit(called)
         ELSE LoopOrExit(rec)

\* what user-supplied callbacks may do; collectAll's own never throw
Behaviours(kind) == IF kind = "sub" THEN BOOLEAN ELSE {FALSE}

\* stream.subscribe(callback, onComplete), up to the first await
Subscribe(c) ==
  \E ocThrows \in BOOLEAN :
    Acquire(c, "sub",
            CatchHandler([Started("sub") EXCEPT !.subscribing = TRUE],
                         "locked", ocThrows))

\* stream.collectAll(), up to the first await of its subscription
CollectAll(c) ==
  Acquire(c, "collect",
          CatchHandler([Started("collect") EXCEPT !.subscribing = TRUE],
                       "locked", FALSE))

\* the pump's awaited read settles
PumpResume(c) ==
  /\ con[c].kind \in {"sub", "collect"}
  /\ con[c].pc = "reading"
  /\ con[c].result.tag \in {"value", "done", "error"}
  /\ \E cbCancels, cbThrows, ocThrows, ocThrowsAgain \in Behaviours(con[c].kind) :
       LET new == PumpSettle(con[c], cbCancels, cbThrows, ocThrows,
                             ocThrowsAgain)
       IN Install(c, new, Len(new.values) > Len(con[c].values))

\* the function subscribe returned is called: subscribing = null
Cancel(c) ==
  /\ con[c].kind = "sub"
  /\ con[c].subscribing
  /\ con' = [con EXCEPT ![c].subscribing = FALSE]
  /\ UNCHANGED <<delivered, overlap>>
  /\ UNCHANGED streamVars
  /\ UNCHANGED parseVars

Init ==
  /\ ParseIdle
  /\ custom = FALSE
  /\ StreamInit

Next ==
  \/ \E falsy \in BOOLEAN : Enqueue(falsy)
  \/ Close
  \/ Fail
  \/ \E c \in Consumers : IterStart(c)
  \/ \E c \in Consumers : IterResume(c)
  \/ \E c \in Consumers : IterNext(c)
  \/ \E c \in Consumers : IterReturn(c)
  \/ \E c \in Consumers : Subscribe(c)
  \/ \E c \in Consumers : CollectAll(c)
  \/ \E c \in Consumers : PumpResume(c)
  \/ \E c \in Consumers : Cancel(c)

Spec == Init /\ [][Next]_vars

\* The same with a source that eventually closes and a job queue that runs
\* every continuation whose awaited read has settled.
FairSpec ==
  /\ Spec
  /\ WF_vars(Close)
  /\ \A c \in Consumers : WF_vars(PumpResume(c))

\* The adapter over a pipeline whose stage is options.transformStream: its
\* output values may be falsy.
InitCustom ==
  /\ ParseIdle
  /\ custom = TRUE
  /\ StreamInit

SpecCustom == InitCustom /\ [][Next]_vars

\* ======================================================== properties
IsPrefix(s, t) == Len(s) <= Len(t) /\ SubSeq(t, 1, Len(s)) = s

\* the field maps emitted when t is fed as one chunk and the stream closed
OneChunk(t) ==
  LET r == splitStreamTransform(<<>>, t)
  IN pipeEventParts(r.enqueued \o splitStreamFlush(r.buffer))

\* C1 -- chunk-boundary independence: however the text was cut into chunks,
\* once the stream is closed the field maps emitted are those of the text fed
\* as a single chunk.
C1_ChunkBoundaryIndependence ==
  flushed => emitted = OneChunk(text)

\* two events, with a chunk boundary between the line breaks separating them
C1_Witness ==
  /\ flushed
  /\ cutInSeparator
  /\ Len(emitted) >= 2

\* the reference result: split the whole text on the blank line, drop the
\* blank segments, parse each segment, drop the empty maps
Reference(t) ==
  pipeEventParts(SelectSeq(split(t, DEFAULT_STREAM_SEPARATOR), isValidString))

\* C10 -- the output equals the reference result: what has been emitted is
\* always a prefix of the reference result of the whole text, and is equal to
\* it once the stream has closed (each map once, in order, tail included).
C10_ReferenceResult ==
  /\ IsPrefix(emitted, Reference(text))
  /\ flushed => emitted = Reference(text)

\* two events, the second the non-blank tail emitted by flush
C10_Witness ==
  /\ flushed
  /\ isValidString(buffer)
  /\ Len(emitted) = 2
  /\ emitted[2] = splitEventPartTransform(buffer)[1]

\* ---------------------------------------------- the consumption adapter
Pumps == {c \in Consumers : con[c].kind \in {"sub", "collect"}}
Iterations == {c \in Consumers : con[c].kind = "iter"}
Range(seq) == {seq[i] : i \in 1..Len(seq)}
Quiescent == \A c \in Consumers : con[c].pc \in {"idle", "ended"}

\* C2 -- the completion callback of a subscribe call is invoked at most once.
C2_CompletionAtMostOnce ==
  \A c \in Pumps : con[c].completions <= 1

\* C3 -- cancellation stops delivery: once the cancel function of a
\* subscription has been called, no step invokes its value callback again.
C3_CancellationStopsDelivery ==
  [][\A c \in Consumers :
       (con[c].kind = "sub" /\ ~con[c].subscribing)
         => con'[c].values = con[c].values]_vars

\* a subscription cancelled with a read in flight: the read returned a value,
\* the pump has ended and the value was not delivered
C3_Witness ==
  \E c \in Pumps :
    /\ con[c].kind = "sub"
    /\ ~con[c].subscribing
    /\ con[c].pc = "ended"
    /\ Len(con[c].values) >= 1
    /\ Len(con[c].taken) > Len(con[c].values)

\* the values consumer c read and did not hand on
Dropped(c) == Range(con[c].taken) \ Range(con[c].values)

\* C4 (as claimed) -- consumers used one after another lose and duplicate
\* nothing: when at least two consumers were used, none started while another
\* was still consuming, and the stream has closed with every consumer ended,
\* the values delivered are the produced sequence.
C4_NothingLost ==
  (/\ ~overlap
   /\ state = "closed"
   /\ Quiescent
   /\ Cardinality({c \in Consumers : con[c].pc = "ended"}) >= 2)
    => delivered = produced

\* C4 (amended) -- nothing is duplicated or reordered, and the only value a
\* consumer reads without delivering it is the one returned by the read that
\* was in flight when its subscription was cancelled:
\*  - the values delivered are distinct values of the produced sequence, in
\*    produced order;
\*  - each consumer has delivered the values it read, except at most the last
\*    one, and once it has ended that exception is a cancelled subscription;
\*  - when the stream has closed and every consumer has ended, every produced
\*    value was delivered or is such a dropped value.
C4_NothingLostButCancelledRead ==
  /\ \A i \in 1..Len(delivered) :
       /\ delivered[i] \in Range(produced)
       /\ \A j \in 1..(i - 1) : delivered[j] < delivered[i]
  /\ \A c \in Consumers :
       /\ IsPrefix(con[c].values, con[c].taken)
       /\ Len(con[c].taken) <= Len(con[c].values) + 1
       /\ (con[c].pc = "ended" /\ Dropped(c) # {})
            => (con[c].kind = "sub" /\ ~con[c].subscribing
                /\ con[c].outcome = "cancelled")
  /\ (state = "closed" /\ Quiescent)
       => Range(produced) =
            Range(delivered) \cup UNION {Dropped(c) : c \in Consumers}

\* a subscription delivered a value, was cancelled and dropped the next one;
\* the consumer after it received the rest, and the stream has closed
C4_Witness ==
  /\ ~overlap
  /\ state = "closed"
  /\ Quiescent
  /\ con[1].kind = "sub" /\ con[1].values = <<1>> /\ Dropped(1) = {2}
  /\ con[2].kind = "iter" /\ con[2].values = <<3>>
  /\ delivered = <<1, 3>>

\* C5 -- the reader lock is released on every exit path: a consumer that has
\* ended does not hold the lock, and with every consumer ended (or not yet
\* started) the stream is unlocked.
C5_LockReleased ==
  /\ \A c \in Consumers : con[c].pc \in {"idle", "ended"} => locked # c
  /\ Quiescent => locked = 0

\* an iteration left early and a pump ended by a throwing value callback
C5_Witness ==
  /\ locked = 0
  /\ \E c \in Consumers : con[c].outcome = "returned"
  /\ \E c \in Consumers : con[c].outcome = "callbackThrew"

\* the truthy values of the produced sequence
Outputs == SelectSeq(produced, Truthy)
Alone(c) == \A d \in Consumers \ {c} : con[d].pc = "idle"

\* C6 -- collection equivalence: on a stream that closed without error and
\* had a single consumer, the array collectAll resolved to and the values a
\* completed for-await yielded are both the sequence of the stream's values,
\* so they are equal for identical sources.
C6_CollectionEquivalence ==
  \A c \in Consumers :
    (Alone(c) /\ state = "closed") =>
      /\ (con[c].kind = "collect" /\ con[c].promise.state = "fulfilled")
           => con[c].promise.value = Outputs
      /\ (con[c].kind = "iter" /\ con[c].outcome = "done")
           => con[c].values = Outputs

\* collectAll alone on a stream of MaxValues values has resolved
C6_Witness ==
  \E c \in Consumers :
    /\ Alone(c)
    /\ state = "closed"
    /\ con[c].kind = "collect"
    /\ con[c].promise.state = "fulfilled"
    /\ Len(con[c].promise.value) >= 2

\* C7 -- a subscription that is never cancelled and sees the sequence end has
\* its completion callback invoked exactly once, after the value callback
\* was invoked for every value it read, and no value callback after it.
C7_CompletionAfterAllValues ==
  \A c \in Pumps :
    (con[c].subscribing /\ con[c].outcome = "done") =>
      /\ con[c].completions = 1
      /\ con[c].values = con[c].taken
      /\ con[c].lateValues = 0

\* C8 -- read error in push mode: a pump that has resumed from a rejected
\* read has ended without rejecting with the read error, has invoked the
\* completion callback exactly once, has invoked the value callback only for
\* values read before, and collectAll's promise is fulfilled with exactly
\* those values; afterwards it invokes no callback and issues no read.
C8_PushReadError ==
  /\ [](\A c \in Pumps :
          (con[c].failed /\ con[c].pc # "reading") =>
            /\ con[c].pc = "ended"
            /\ con[c].rejected # "readError"
            /\ con[c].completions = 1
            /\ con[c].lateValues = 0
            /\ IsPrefix(con[c].values, con[c].taken)
            /\ con[c].kind = "collect" =>
                 /\ con[c].promise.state = "fulfilled"
                 /\ con[c].promise.value = con[c].values
                 /\ con[c].values = con[c].taken)
  /\ [][\A c \in Pumps :
          (con[c].failed /\ con[c].pc = "ended") =>
            /\ con'[c].values = con[c].values
            /\ con'[c].completions = con[c].completions
            /\ con'[c].reads = con[c].reads]_vars

\* collectAll resolved with the two values read before the failing read
C8_Witness ==
  \E c \in Pumps :
    /\ con[c].kind = "collect"
    /\ con[c].failed
    /\ con[c].promise.state = "fulfilled"
    /\ Len(con[c].promise.value) = 2
    /\ con[c].reads = 3

\* C9 -- read error in pull mode: an iteration that has resumed from a
\* rejected read has ended by rejecting with the read error, has yielded
\* every value read before it, in order, and no longer holds the lock.
C9_PullReadError ==
  \A c \in Iterations :
    (con[c].failed /\ con[c].pc # "reading") =>
      /\ con[c].pc = "ended"
      /\ con[c].rejected = "readError"
      /\ con[c].outcome # "done"
      /\ con[c].values = con[c].taken
      /\ locked # c

\* an iteration yielded two values and its third read failed
C9_Witness ==
  \E c \in Iterations :
    /\ con[c].failed
    /\ con[c].pc = "ended"
    /\ Len(con[c].values) = 2
    /\ con[c].reads = 3

\* ------------------------------------------------ blocks and field maps
\* a text that is empty or holds white space only
Blank(s) == \A i \in 1..Len(s) : s[i] \in WhiteSpace

\* t occurs somewhere in s
Occurs(s, t) ==
  \E i \in 1..(Len(s) - Len(t) + 1) : SubSeq(s, i, i + Len(t) - 1) = t

\* C11 -- blank-block dropping: no block the splitter passes on is empty or
\* white space only (neither a block cut out by separators nor the pending
\* buffer enqueued at stream end), every non-blank block is passed on, and no
\* field map emitted is empty.
C11_BlankBlocksDropped ==
  /\ \A i \in 1..Len(blocks) : ~Blank(blocks[i])
  /\ \A i \in 1..Len(emitted) : emitted[i] # <<>>
  /\ Len(emitted) <= Len(blocks)
  /\ flushed =>
       blocks = SelectSeq(split(text, DEFAULT_STREAM_SEPARATOR),
                          LAMBDA b : ~Blank(b))

\* a closed stream whose text had an empty block between two consecutive
\* separators and one event: the event is the only block passed on
C11_Witness ==
  /\ flushed
  /\ Occurs(text, DEFAULT_STREAM_SEPARATOR \o DEFAULT_STREAM_SEPARATOR)
  /\ Len(blocks) = 1
  /\ Len(emitted) = 1

\* ---- what a block's lines say, read off the text
Lines(b) == split(b, DEFAULT_PART_SEPARATOR)

HasColon(l) == \E i \in 1..Len(l) : l[i] = ":"

\* the position of the first ':' of a line that has one
FirstColon(l) ==
  CHOOSE i \in 1..Len(l) : l[i] = ":" /\ \A j \in 1..(i - 1) : l[j] # ":"

KeyText(l) == SubSeq(l, 1, FirstColon(l) - 1)
ValueText(l) == SubSeq(l, FirstColon(l) + 1, Len(l))

\* s without its leading and trailing white space
Stripped(s) ==
  IF Blank(s) THEN <<>>
  ELSE LET first == CHOOSE i \in 1..Len(s) :
                      s[i] \notin WhiteSpace /\ Blank(SubSeq(s, 1, i - 1))
           last == CHOOSE i \in 1..Len(s) :
                     s[i] \notin WhiteSpace /\ Blank(SubSeq(s, i + 1, Len(s)))
       IN SubSeq(s, first, last)

\* a field line: it has a ':' and a non-blank text before the first ':'
WellFormed(l) == HasColon(l) /\ ~Blank(KeyText(l))

\* line i of ls is the last field line of ls with its key
LastOfKey(ls, i) ==
  /\ WellFormed(ls[i])
  /\ \A j \in (i + 1)..Len(ls) :
       WellFormed(ls[j]) => KeyText(ls[j]) # KeyText(ls[i])

\* the blocks passed on that hold at least one field line
FieldBlocks ==
  SelectSeq(blocks, LAMBDA b :
    \E i \in 1..Len(Lines(b)) : WellFormed(Lines(b)[i]))

\* C12 -- first-separator-wins: once the stream has closed, every block with
\* a field line has its field map, and for every field line (the last one of
\* its key in the block) that map holds the pair of the text before the first
\* ':' and the stripped text after the first ':', later ':' included.
C12_FirstSeparatorWins ==
  flushed =>
    /\ Len(emitted) = Len(FieldBlocks)
    /\ \A n \in 1..Len(FieldBlocks) :
         LET ls == Lines(FieldBlocks[n]) IN
           \A i \in 1..Len(ls) :
             LastOfKey(ls, i) =>
               <<KeyText(ls[i]), Stripped(ValueText(ls[i]))>>
                 \in Range(emitted[n])

\* line i of ls is the first field line of ls with its key
FirstOfKey(ls, i) ==
  /\ WellFormed(ls[i])
  /\ \A j \in 1..(i - 1) :
       WellFormed(ls[j]) => KeyText(ls[j]) # KeyText(ls[i])

\* the keys of the field lines of ls, each once, in order of first occurrence
KeyOrder(ls) ==
  LET idx == SelectSeq([i \in 1..Len(ls) |-> i],
                       LAMBDA i : FirstOfKey(ls, i))
  IN [k \in 1..Len(idx) |-> KeyText(ls[idx[k]])]

\* Object.keys(map)
KeysOf(map) == [i \in 1..Len(map) |-> map[i][1]]

\* C13 -- duplicate-key overwrite: once the stream has closed, the field map
\* of every block with a field line lists the keys of the block's field lines
\* once each, in the order of their first occurrence, and each key has the
\* stripped value of its last occurrence in the block.
C13_DuplicateKeyOverwrite ==
  flushed =>
    /\ Len(emitted) = Len(FieldBlocks)
    /\ \A n \in 1..Len(FieldBlocks) :
         LET ls == Lines(FieldBlocks[n]) IN
           /\ KeysOf(emitted[n]) = KeyOrder(ls)
           /\ \A k \in 1..Len(emitted[n]) :
                \E i \in 1..Len(ls) :
                  /\ LastOfKey(ls, i)
                  /\ emitted[n][k] =
                       <<KeyText(ls[i]), Stripped(ValueText(ls[i]))>>

\* the pairs the field lines of ls stand for, a later line replacing an
\* earlier one with the same key
FieldPairs(ls) ==
  {<<KeyText(ls[i]), Stripped(ValueText(ls[i]))>> :
     i \in {j \in 1..Len(ls) : LastOfKey(ls, j)}}

\* C14 -- parsing anomalies are recovered locally: once the stream has
\* closed, the blocks whose lines were all skipped (no ':' or a blank key)
\* have emitted nothing, every other block has emitted its map, later blocks
\* included, and that map is exactly the map of the block's field lines.
C14_LocalRecovery ==
  flushed =>
    /\ Len(emitted) = Len(FieldBlocks)
    /\ \A n \in 1..Len(FieldBlocks) :
         /\ Range(emitted[n]) = FieldPairs(Lines(FieldBlocks[n]))
         /\ Len(emitted[n]) = Cardinality(FieldPairs(Lines(FieldBlocks[n])))

\* the subscriptions whose cancel function has been called
Cancelled == {c \in Consumers : con[c].kind = "sub" /\ ~con[c].subscribing}

\* C15 -- no read after cancellation: a cancelled subscription is either
\* still awaiting the read that was in flight when it was cancelled, holding
\* the lock, or has ended; no step that leaves it cancelled issues a read for
\* it; when the in-flight read settles the pump ends and releases the lock
\* without invoking the value callback; an ended pump does nothing more.
C15_NoReadAfterCancel ==
  /\ [](\A c \in Cancelled :
          /\ con[c].pc \in {"reading", "ended"}
          /\ con[c].pc = "reading" => locked = c)
  /\ [][\A c \in Consumers :
          /\ (con'[c].kind = "sub" /\ ~con'[c].subscribing)
               => con'[c].reads = con[c].reads
          /\ (c \in Cancelled /\ con[c].pc = "reading" /\ con'[c].pc # "reading")
               => /\ con'[c].pc = "ended"
                  /\ locked' # c
                  /\ con'[c].values = con[c].values
          /\ (c \in Cancelled /\ con[c].pc = "ended")
               => con'[c] = con[c]]_vars

\* a subscription cancelled with its second read in flight: that read took a
\* value, the pump ended as cancelled after two reads and delivered only the
\* first value
C15_Witness ==
  \E c \in Cancelled :
    /\ con[c].outcome = "cancelled"
    /\ con[c].reads = 2
    /\ con[c].taken = <<1, 2>>
    /\ con[c].values = <<1>>
    /\ locked # c

\* the output sequence has ended or failed
Over == state \in {"closed", "errored"}

\* C16 -- completion only at the end: whenever the completion callback of a
\* subscribe or collectAll call has been invoked, the underlying sequence
\* has ended or failed, also for a call made on a stream another consumer
\* still holds locked.
C16_CompletionOnlyAtEnd ==
  \A c \in Pumps : con[c].completions > 0 => Over

\* C17 -- every output value is delivered: a subscription that was not
\* cancelled, or an iteration, that has seen the sequence end without a
\* failed read has passed on every value it read, once each and in order,
\* falsy values of a custom stage included; as the only consumer of the
\* stream it has passed on the whole output sequence.
C17_EveryValueDelivered ==
  \A c \in Consumers :
    (/\ con[c].outcome = "done"
     /\ ~con[c].failed
     /\ c \in Pumps => con[c].subscribing)
      => /\ con[c].values = con[c].taken
         /\ Alone(c) => con[c].values = produced

Collections == {c \in Consumers : con[c].kind = "collect"}

\* C18 -- collectAll resolves only at the end: whenever the promise of a
\* collectAll call is resolved the underlying sequence has ended or failed,
\* and when it ended for a collectAll that was the only consumer the promise
\* holds every value of the sequence in order.
C18_ResolvedOnlyAtEnd ==
  \A c \in Collections :
    con[c].promise.state = "fulfilled" =>
      /\ Over
      /\ (Alone(c) /\ state = "closed") => con[c].promise.value = produced

\* C18, second half -- on a source that closes, the promise of every
\* collectAll call is eventually resolved.
C18_EventuallyResolved ==
  \A c \in Consumers :
    (con[c].kind = "collect") ~> (con[c].promise.state = "fulfilled")

\* C19 (as claimed) -- once the stream has closed, the blocks passed on are
\* the non-blank segments before the last separator followed by the pending
\* tail if and only if the tail is non-blank, and the pending buffer is empty.
C19_FlushEmitsAndClears ==
  flushed =>
    LET parts == split(text, DEFAULT_STREAM_SEPARATOR)
        tail == parts[Len(parts)]
        before == SelectSeq(SubSeq(parts, 1, Len(parts) - 1),
                            LAMBDA b : ~Blank(b))
    IN /\ blocks = IF Blank(tail) THEN before ELSE Append(before, tail)
       /\ buffer = <<>>

\* C19 (amended) -- the step that closes the stream passes the pending
\* buffer on as one more block if and only if it is non-blank, and leaves the
\* pending buffer as it was; no later step changes either.
C19_FlushEmitsAndKeeps ==
  [][/\ (~flushed /\ flushed')
          => /\ blocks' = IF Blank(buffer) THEN blocks
                          ELSE Append(blocks, buffer)
             /\ buffer' = buffer
     /\ flushed => (blocks' = blocks /\ buffer' = buffer)]_vars

\* a closed stream with two blocks, the second one the non-blank pending
\* buffer, which the buffer variable still holds
C19_Witness ==
  /\ flushed
  /\ Len(blocks) = 2
  /\ buffer # <<>>
  /\ blocks[2] = buffer

\* the position of an output value in the output sequence
Position(v) == IF v < 0 THEN -v ELSE v

\* C20 -- one reader at a time: only the consumer holding the lock is inside
\* its loop or has a read outstanding, so at most one consumer is; a consumer
\* started while another held the lock has issued no read and received no
\* value; the values taken off the stream were taken by one consumer each,
\* in output order, none being lost while the stream has not failed; and a
\* consumer that was not cancelled and saw the end has passed on every
\* value it took, falsy values of a custom stage excepted.
C20_SingleReader ==
  /\ \A c \in Consumers :
       (con[c].pc \in {"reading", "yielded"} \/ con[c].result.tag # "none")
         => locked = c
  /\ \A c \in Consumers :
       con[c].outcome = "locked"
         => (con[c].reads = 0 /\ con[c].taken = <<>> /\ con[c].values = <<>>)
  /\ \A c \in Consumers :
       /\ \A i \in 1..Len(con[c].taken) :
            \A j \in 1..(i - 1) :
              Position(con[c].taken[j]) < Position(con[c].taken[i])
       /\ (con[c].outcome = "done" /\ (c \in Pumps => con[c].subscribing))
            => con[c].values = SelectSeq(con[c].taken, Truthy)
       /\ \A d \in Consumers \ {c} :
            Range(con[c].taken) \cap Range(con[d].taken) = {}
  /\ state # "errored"
       => Range(produced) =
            Range(queue) \cup UNION {Range(con[c].taken) : c \in Consumers}

\* a second consumer was started while the first held the lock: it got
\* nothing, and the first went on to receive three values and the end
C20_Witness ==
  /\ con[2].outcome = "locked"
  /\ con[1].outcome = "done"
  /\ con[1].values = <<1, 2, 3>>
  /\ con[1].reads = 4

====
